---- MODULE Spec2Model ----
(***************************************************************************)
(* A model of snakebit: the snake game engine (src/src/game.rs), the       *)
(* button latch shared with the GPIOTE interrupt (src/src/control.rs) and  *)
(* the main loop (src/src/main.rs).                                        *)
(***************************************************************************)
EXTENDS Integers, Sequences, FiniteSets, TLC

\* ------------------------------------------------------------------ bounds

\* Step calls explored per game (since Game::new or the last reset).
MaxSteps == 7
\* The same, in the specification that looks two steps further.
MaxDeepSteps == 9
\* Step calls of the scripted opening that starts the endgame specification.
OpeningLen == 17
\* Step calls explored per game under the main loop.
MaxMainSteps == 3
\* Step calls explored per game from each stage of a scripted play.
MaxCareerSteps == 5
\* Step calls explored per game while the score is shown.
MaxShowSteps == 3
\* Step calls explored per game under the main loop late in a game.
MaxLateSteps == 1
\* Step calls of the scripted opening that loops onto its own tail.
LoopOpeningLen == 19

\* ------------------------------------------------------- program constants

N_ROWS == 5
N_COLS == 5
\* Tail length at which eating means the grid is full (game.rs:213).
FullTailLen == 23
\* Queue<Coords, 32>: a heapless spsc queue of size 32 holds 31 elements.
TailQueueSize == 32
\* FnvIndexSet<Coords, 32>
CoordSetCapacity == 32

VARIABLES
    game,       \* the Game struct of main: snake, food_coords, speed, status, score
    fault,      \* "none", or how a call ended without returning: "panic" | "spin"
    steps,      \* step calls made in this game (bounds the exploration)
    ret,        \* what the last call on the Game returned (NoCall: nothing)
    TURN,       \* static TURN: the latched turn
    GPIO,       \* static GPIO: TRUE once it holds Some(gpiote)
    event0,     \* channel 0 (button A) event flag
    event1,     \* channel 1 (button B) event flag
    irq_enabled,\* NVIC: the GPIOTE interrupt is unmasked
    irq_pending,\* NVIC: the GPIOTE interrupt is pending
    in_handler, \* the processor is in the GPIOTE handler, before its body ran
    primask,    \* interrupts are disabled: the main context is inside free()
    pc,         \* where the main context is
    gt_reset,   \* get_turn: its `reset` argument
    gt_turn,    \* get_turn: its local `turn`, the value it returns
    h_int,      \* history: the latest interrupt since the last get_turn(true) read
    h_seen,     \* history: h_int as it was when get_turn read TURN
    h_count,    \* history: interrupts since the last get_turn(true) (2: two or more)
    h_entry,    \* history: TURN as it was when get_turn was called
    h_quiet,    \* history: what the last call returned, if it was get_turn(true)
                \* and no interrupt has run since; "no" otherwise
    h_wasquiet  \* history: h_quiet as it was when get_turn was called

gameVars == <<game, fault, steps, ret>>
latchVars == <<TURN, GPIO, event0, event1, irq_enabled, irq_pending, in_handler,
               primask, gt_reset, gt_turn>>
\* What the latest interrupt and the latest poll saw: kept by the actions.
pollHist == <<h_int, h_seen>>
\* What successive get_turn calls saw: kept by LatchSpec only.
callHist == <<h_count, h_entry, h_quiet, h_wasquiet>>
histVars == <<pollHist, callHist>>
vars == <<gameVars, latchVars, histVars, pc>>

\* ------------------------------------------------------------ game.rs types

Direction == {"Up", "Down", "Left", "Right"}
Turn == {"Left", "Right", "None"}
GameStatus == {"Won", "Lost", "Ongoing"}

Coords(r, c) == [row |-> r, col |-> c]

Grid == {Coords(r, c) : r \in 0..(N_ROWS - 1), c \in 0..(N_COLS - 1)}

\* Coords::random: the coordinates the rejection-sampling loop can return.
\* Every draw is in the grid; a draw in `exclude` is redrawn. With the whole
\* grid excluded the set is empty: the loop never ends.
random(exclude) == {c \in Grid : c \notin exclude}

\* is_out_of_bounds that looks at the row only.
is_out_of_bounds_row_only(c) == c.row < 0 \/ c.row >= N_ROWS

is_out_of_bounds(c) ==
    c.row < 0 \/ c.row >= N_ROWS \/ c.col < 0 \/ c.col >= N_COLS

\* ------------------------------------------------------------------- Snake

Snake_new ==
    [head |-> Coords(2, 2),
     tail |-> <<Coords(2, 1)>>,
     coord_set |-> {Coords(2, 2), Coords(2, 1)},
     direction |-> "Right"]

\* enqueue(..).unwrap() fails on a full queue, insert(..).unwrap() on a full
\* set that does not hold the value yet.
move_snake_panics(snake, coords) ==
    \/ Len(snake.tail) >= TailQueueSize - 1
    \/ (coords \notin snake.coord_set
        /\ Cardinality(snake.coord_set) >= CoordSetCapacity)

\* move_snake that vacates the rearmost tile whatever `extend` is, and
\* move_snake that never does.
move_snake_always_vacates(snake, coords, extend) ==
    LET tail1 == Append(snake.tail, snake.head)
        set1 == snake.coord_set \cup {coords}
    IN  [snake EXCEPT !.tail = Tail(tail1), !.head = coords,
                      !.coord_set = set1 \ {Head(tail1)}]

move_snake_never_vacates(snake, coords, extend) ==
    [snake EXCEPT !.tail = Append(snake.tail, snake.head), !.head = coords,
                  !.coord_set = snake.coord_set \cup {coords}]

move_snake(snake, coords, extend) ==
    LET tail1 == Append(snake.tail, snake.head)
        set1 == snake.coord_set \cup {coords}
    IN  IF extend
        THEN [snake EXCEPT !.tail = tail1, !.head = coords, !.coord_set = set1]
        ELSE [snake EXCEPT !.tail = Tail(tail1), !.head = coords,
                           !.coord_set = set1 \ {Head(tail1)}]

turn_right(snake) ==
    [snake EXCEPT !.direction =
        CASE snake.direction = "Up" -> "Right"
          [] snake.direction = "Down" -> "Left"
          [] snake.direction = "Left" -> "Up"
          [] snake.direction = "Right" -> "Down"]

turn_left(snake) ==
    [snake EXCEPT !.direction =
        CASE snake.direction = "Up" -> "Left"
          [] snake.direction = "Down" -> "Right"
          [] snake.direction = "Left" -> "Down"
          [] snake.direction = "Right" -> "Up"]

turn(snake, direction) ==
    CASE direction = "Left" -> turn_left(snake)
      [] direction = "Right" -> turn_right(snake)
      [] direction = "None" -> snake

\* -------------------------------------------------------------------- Game

\* place_food: the games the call can return, one per coordinate the random
\* source can produce.
place_food(g) ==
    {[g EXCEPT !.food_coords = c] : c \in random(g.snake.coord_set)}

\* The rng field holds the handle Rng::new(board.RNG) that main passes in.
Game_new ==
    place_food([rng |-> "board.RNG", snake |-> Snake_new,
                food_coords |-> Coords(0, 0),
                speed |-> 1, status |-> "Ongoing", score |-> 0])

\* reset that leaves the speed as it is.
reset_keeps_speed(g) ==
    {[f EXCEPT !.status = "Ongoing", !.score = 0] :
        f \in place_food([g EXCEPT !.snake = Snake_new])}

\* reset that leaves the score as it is.
reset_keeps_score(g) ==
    {[f EXCEPT !.speed = 1, !.status = "Ongoing"] :
        f \in place_food([g EXCEPT !.snake = Snake_new])}

reset(g) ==
    {[f EXCEPT !.speed = 1, !.status = "Ongoing", !.score = 0] :
        f \in place_food([g EXCEPT !.snake = Snake_new])}

next_move(g) ==
    LET head == g.snake.head
    IN  CASE g.snake.direction = "Up" -> Coords(head.row - 1, head.col)
          [] g.snake.direction = "Down" -> Coords(head.row + 1, head.col)
          [] g.snake.direction = "Left" -> Coords(head.row, head.col - 1)
          [] g.snake.direction = "Right" -> Coords(head.row, head.col + 1)

\* get_step_outcome with the tail length that counts as a full grid.
step_outcome_at(g, full) ==
    LET nm == next_move(g)
    IN  IF is_out_of_bounds(nm) THEN [kind |-> "OutOfBounds", coords |-> nm]
        ELSE IF nm \in g.snake.coord_set
        THEN IF g.snake.tail = <<>> THEN [kind |-> "Panic", coords |-> nm]
             ELSE IF nm # Head(g.snake.tail)
             THEN [kind |-> "Collision", coords |-> nm]
             ELSE [kind |-> "Move", coords |-> nm]
        ELSE IF nm = g.food_coords
        THEN IF Len(g.snake.tail) = full
             THEN [kind |-> "Full", coords |-> nm]
             ELSE [kind |-> "Eat", coords |-> nm]
        ELSE [kind |-> "Move", coords |-> nm]

get_step_outcome_full24(g) == step_outcome_at(g, FullTailLen + 1)

\* get_step_outcome without a tail length that counts as a full grid.
get_step_outcome_never_full(g) == step_outcome_at(g, 0 - 1)

get_step_outcome(g) == step_outcome_at(g, FullTailLen)

\* u8 += 1: an overflow panics in a debug build and wraps in a release build.
add1_u8(x) == (x + 1) % 256

\* self.score += 1 or self.speed += 1 overflows its u8.
step_overflows(g, outcome) ==
    /\ outcome.kind = "Eat"
    /\ (g.score = 255 \/ (add1_u8(g.score) % 5 = 0 /\ g.speed = 255))

\* How handle_step_outcome ends when it does not return.
handle_fault(g, outcome) ==
    CASE outcome.kind = "Panic" -> "panic"
      [] outcome.kind = "Eat" ->
            IF move_snake_panics(g.snake, outcome.coords) THEN "panic"
            ELSE IF random(move_snake(g.snake, outcome.coords, TRUE).coord_set) = {}
            THEN "spin"
            ELSE "none"
      [] outcome.kind = "Move" ->
            IF move_snake_panics(g.snake, outcome.coords) THEN "panic" ELSE "none"
      [] OTHER -> "none"

\* handle_step_outcome that moves the snake also when it collides.
handle_step_outcome_moves_on_collision(g, outcome) ==
    CASE outcome.kind = "OutOfBounds" -> {[g EXCEPT !.status = "Lost"]}
      [] outcome.kind = "Collision" ->
            {[g EXCEPT !.snake = move_snake(g.snake, outcome.coords, FALSE),
                       !.status = "Lost"]}
      [] outcome.kind = "Full" -> {[g EXCEPT !.status = "Won"]}
      [] outcome.kind = "Eat" ->
            {[f EXCEPT !.score = add1_u8(g.score),
                       !.speed = IF add1_u8(g.score) % 5 = 0
                                 THEN add1_u8(g.speed) ELSE g.speed,
                       !.status = "Ongoing"] :
                f \in place_food(
                    [g EXCEPT !.snake = move_snake(g.snake, outcome.coords, TRUE)])}
      [] outcome.kind = "Move" ->
            {[g EXCEPT !.snake = move_snake(g.snake, outcome.coords, FALSE),
                       !.status = "Ongoing"]}
      [] OTHER -> {g}

\* handle_step_outcome: the games the call can leave (one per food draw).
handle_step_outcome(g, outcome) ==
    CASE outcome.kind \in {"OutOfBounds", "Collision"} ->
            {[g EXCEPT !.status = "Lost"]}
      [] outcome.kind = "Full" -> {[g EXCEPT !.status = "Won"]}
      [] outcome.kind = "Eat" ->
            {[f EXCEPT !.score = add1_u8(g.score),
                       !.speed = IF add1_u8(g.score) % 5 = 0
                                 THEN add1_u8(g.speed) ELSE g.speed,
                       !.status = "Ongoing"] :
                f \in place_food(
                    [g EXCEPT !.snake = move_snake(g.snake, outcome.coords, TRUE)])}
      [] outcome.kind = "Move" ->
            {[g EXCEPT !.snake = move_snake(g.snake, outcome.coords, FALSE),
                       !.status = "Ongoing"]}
      [] OTHER -> {g}

turned(g, t) == [g EXCEPT !.snake = turn(g.snake, t)]

step_fault(g, t) == handle_fault(turned(g, t), get_step_outcome(turned(g, t)))

step(g, t) == handle_step_outcome(turned(g, t), get_step_outcome(turned(g, t)))

\* core::cmp::max that returns its first argument.
max_first(a, b) == a

\* core::cmp::max
max(a, b) == IF a > b THEN a ELSE b

\* `result`, an i32 computed from the u8 speed.
step_len_result(g) == 1000 - (200 * (g.speed - 1))

\* max(result, 200) is at least 200, so the cast to u32 keeps its value.
step_len_ms(g) == max(step_len_result(g), 200)


\* score_matrix that lights the full rows only.
score_matrix_full_rows_only(g, brightness) ==
    LET full_rows == g.score \div N_COLS
    IN  [r \in 0..(N_ROWS - 1) |->
            [c \in 0..(N_COLS - 1) |-> IF r < full_rows THEN brightness ELSE 0]]

\* score_matrix: the array it returns. values[r] is written for every
\* r < full_rows, values[full_rows][c] for every c < score % N_COLS.
score_matrix(g, brightness) ==
    LET full_rows == g.score \div N_COLS
    IN  [r \in 0..(N_ROWS - 1) |->
            [c \in 0..(N_COLS - 1) |->
                IF r < full_rows \/ (r = full_rows /\ c < g.score % N_COLS)
                THEN brightness ELSE 0]]

\* score_matrix indexes `values` outside its N_ROWS rows, which panics.
score_matrix_panics(g) ==
    LET full_rows == g.score \div N_COLS
    IN  \/ full_rows > N_ROWS
        \/ (full_rows >= N_ROWS /\ g.score % N_COLS > 0)

\* ----------------------------------------------------- the Game as called

\* Game::new(rng)
NoCall == [fn |-> "none"]

GameInit ==
    /\ game \in Game_new
    /\ fault = "none"
    /\ steps = 0
    /\ ret = NoCall

\* game.step(t), for at most `bound` calls a game.
StepWithin(t, bound) ==
    /\ fault = "none"
    /\ steps < bound
    /\ steps' = steps + 1
    /\ IF step_fault(game, t) # "none"
       THEN /\ fault' = step_fault(game, t)
            /\ game' = turned(game, t)
       ELSE /\ game' \in step(game, t)
            /\ \/ fault' = fault
               \/ (/\ step_overflows(turned(game, t), get_step_outcome(turned(game, t)))
                   /\ fault' = "panic")
    /\ ret' = NoCall

\* game.reset()
ResetGame ==
    /\ fault = "none"
    /\ game' \in reset(game)
    /\ steps' = 0
    /\ fault' = fault
    /\ ret' = NoCall

\* game.step_len_ms()
StepLenMsCall ==
    /\ fault = "none"
    /\ ret' = [fn |-> "step_len_ms", val |-> step_len_ms(game)]
    /\ UNCHANGED <<game, fault, steps>>

\* game.score_matrix(brightness)
ScoreMatrixCall(brightness) ==
    /\ fault = "none"
    /\ IF score_matrix_panics(game)
       THEN fault' = "panic" /\ ret' = NoCall
       ELSE /\ fault' = fault
            /\ ret' = [fn |-> "score_matrix", brightness |-> brightness,
                        val |-> score_matrix(game, brightness)]
    /\ UNCHANGED <<game, steps>>

\* -------------------------------------------------------------- control.rs

\* h_int: the flags the latest interrupt saw and the turn it stored.
NoInt == [a |-> FALSE, b |-> FALSE, turn |-> "NoInt"]

\* The match with both buttons resolved as button A.
resolve_both_left(a_pressed, b_pressed) ==
    CASE ~a_pressed /\ ~b_pressed -> "None"
      [] a_pressed -> "Left"
      [] ~a_pressed /\ b_pressed -> "Right"

\* The match of the handler (control.rs:65-70).
resolve(a_pressed, b_pressed) ==
    CASE ~a_pressed /\ ~b_pressed -> "None"
      [] a_pressed /\ ~b_pressed -> "Left"
      [] ~a_pressed /\ b_pressed -> "Right"
      [] a_pressed /\ b_pressed -> "None"

\* get_turn that never resets TURN, and get_turn that always does.
turn_after_get_keeps(reset_arg, cur) == cur
turn_after_get_clears(reset_arg, cur) == "None"

\* TURN after lines 50-52 of get_turn.
turn_after_get(reset_arg, cur) == IF reset_arg THEN "None" ELSE cur

\* get_turn without a critical section.
preemptible_always == TRUE

\* free(): the closure runs with interrupts disabled, so the handler can
\* preempt the main context only outside of it.
preemptible == ~primask

LatchInit ==
    /\ TURN = "None"
    /\ GPIO = FALSE
    /\ event0 = FALSE
    /\ event1 = FALSE
    /\ irq_enabled = FALSE
    /\ irq_pending = FALSE
    /\ in_handler = FALSE
    /\ primask = FALSE
    /\ gt_reset = FALSE
    /\ gt_turn = "None"
    /\ h_int = NoInt
    /\ h_seen = NoInt
    /\ h_count = 0
    /\ h_entry = "None"
    /\ h_quiet = "no"
    /\ h_wasquiet = "no"

\* init_buttons: both channels set to falling edge with their interrupt
\* enabled and their events reset; then, in free(), the interrupt is unmasked
\* and unpended and GPIO is set.
init_buttons(next_pc) ==
    /\ pc = "init_buttons"
    /\ ~in_handler
    /\ event0' = FALSE
    /\ event1' = FALSE
    /\ irq_enabled' = TRUE
    /\ irq_pending' = FALSE
    /\ GPIO' = TRUE
    /\ pc' = next_pc
    /\ UNCHANGED <<gameVars, pollHist, TURN, in_handler, primask, gt_reset, gt_turn>>

\* The hardware: a falling edge on button A (channel 0) or B (channel 1) sets
\* the channel's event flag and pends the interrupt. An edge can come at any
\* time, also while the handler runs or interrupts are disabled.
ButtonEdge(ch) ==
    /\ GPIO
    /\ IF ch = 0 THEN event0' = TRUE /\ event1' = event1
                 ELSE event1' = TRUE /\ event0' = event0
    /\ irq_pending' = TRUE
    /\ UNCHANGED <<gameVars, pollHist, TURN, GPIO, irq_enabled, in_handler,
                   primask, gt_reset, gt_turn, pc>>

\* The processor takes the GPIOTE interrupt.
GPIOTE_Enter ==
    /\ irq_enabled
    /\ irq_pending
    /\ ~in_handler
    /\ preemptible
    /\ in_handler' = TRUE
    /\ irq_pending' = FALSE
    /\ UNCHANGED <<gameVars, pollHist, TURN, GPIO, event0, event1, irq_enabled,
                   primask, gt_reset, gt_turn, pc>>

\* The handler's body, in free(): resolve the two flags, clear them, store
\* the turn.
GPIOTE ==
    /\ in_handler
    /\ in_handler' = FALSE
    /\ IF GPIO
       THEN /\ TURN' = resolve(event0, event1)
            /\ event0' = FALSE
            /\ event1' = FALSE
            /\ h_int' = [a |-> event0, b |-> event1,
                         turn |-> resolve(event0, event1)]
       ELSE UNCHANGED <<TURN, event0, event1, h_int>>
    /\ UNCHANGED <<gameVars, GPIO, irq_enabled, irq_pending, primask, gt_reset,
                   gt_turn, pc, h_seen>>

\* get_turn(reset_arg) is called: free() disables interrupts.
get_turn_call(reset_arg, at_pc) ==
    /\ pc = at_pc
    /\ ~in_handler
    /\ pc' = "gt_read"
    /\ primask' = TRUE
    /\ gt_reset' = reset_arg
    /\ UNCHANGED <<gameVars, pollHist, TURN, GPIO, event0, event1, irq_enabled,
                   irq_pending, in_handler, gt_turn>>

\* let turn = *TURN.borrow(cs).borrow();
get_turn_read ==
    /\ pc = "gt_read"
    /\ ~in_handler
    /\ pc' = "gt_reset"
    /\ gt_turn' = TURN
    /\ h_seen' = h_int
    /\ UNCHANGED <<gameVars, TURN, GPIO, event0, event1, irq_enabled, irq_pending,
                   in_handler, primask, gt_reset, h_int>>

\* if reset { *TURN.borrow(cs).borrow_mut() = Turn::None }
get_turn_reset ==
    /\ pc = "gt_reset"
    /\ ~in_handler
    /\ pc' = "gt_exit"
    /\ TURN' = turn_after_get(gt_reset, TURN)
    /\ h_int' = IF gt_reset THEN NoInt ELSE h_int
    /\ UNCHANGED <<gameVars, GPIO, event0, event1, irq_enabled, irq_pending,
                   in_handler, primask, gt_reset, gt_turn, h_seen>>

\* free() returns `turn` and restores interrupts.
get_turn_return(next_pc) ==
    /\ pc = "gt_exit"
    /\ ~in_handler
    /\ pc' = next_pc
    /\ primask' = FALSE
    /\ UNCHANGED <<gameVars, pollHist, TURN, GPIO, event0, event1, irq_enabled,
                   irq_pending, in_handler, gt_reset, gt_turn>>

Interrupts == (\E ch \in {0, 1} : ButtonEdge(ch)) \/ GPIOTE_Enter \/ GPIOTE

\* ---------------------------------------------------------- specifications

\* The Game driven through its interface: step while Ongoing, reset any time.
Init == GameInit /\ LatchInit /\ pc = "game"

StepCall(t) ==
    /\ game.status = "Ongoing"
    /\ StepWithin(t, MaxSteps)
    /\ UNCHANGED <<latchVars, histVars, pc>>

ResetCall == ResetGame /\ UNCHANGED <<latchVars, histVars, pc>>

Next == (\E t \in Turn : StepCall(t)) \/ ResetCall

Spec == Init /\ [][Next]_vars

\* The same interface, explored to MaxDeepSteps.
DeepStepCall(t) ==
    /\ game.status = "Ongoing"
    /\ StepWithin(t, MaxDeepSteps)
    /\ UNCHANGED <<latchVars, histVars, pc>>

DeepNext == (\E t \in Turn : DeepStepCall(t)) \/ ResetCall

DeepSpec == Init /\ [][DeepNext]_vars

\* A game that has come far. The player first moves one cell right and then
\* steers the snake round a spiral, and every food draw lands on the next
\* cell of the spiral: Spiral[1] is reached by a Move, the others by an Eat.
Spiral ==
    <<Coords(2, 3), Coords(1, 3), Coords(1, 2), Coords(1, 1), Coords(2, 1),
      Coords(3, 1), Coords(3, 2), Coords(3, 3), Coords(3, 4), Coords(2, 4),
      Coords(1, 4), Coords(0, 4), Coords(0, 3), Coords(0, 2), Coords(0, 1),
      Coords(0, 0), Coords(1, 0), Coords(2, 0), Coords(3, 0), Coords(4, 0),
      Coords(4, 1), Coords(4, 2), Coords(4, 3), Coords(4, 4)>>

\* The game after step calls i..n of that play are made on g, each by step.
RECURSIVE Played(_, _, _)
Played(g, i, n) ==
    LET x == CHOOSE y \in UNION {step(g, t) : t \in Turn} :
                y.snake.head = Spiral[i] /\ y.food_coords = Spiral[i + 1]
    IN  IF i > n THEN g
        ELSE IF x.status = "Ongoing" THEN Played(x, i + 1, n)
        ELSE x

Opened == Played(CHOOSE g \in Game_new : g.food_coords = Spiral[2], 1, OpeningLen)

EndgameInit ==
    /\ game = Opened
    /\ fault = "none"
    /\ steps = 0
    /\ ret = NoCall
    /\ LatchInit
    /\ pc = "game"

EndgameSpec == EndgameInit /\ [][Next]_vars

\* Another game that has come far. The player eats at (1,2) and (1,1), moves
\* down onto (2,1), the cell the oldest tail segment is leaving, moves on to
\* (2,0) and then eats along a path through the rest of the grid. LoopHeads[i]
\* is the head after step call i; the calls in LoopMoves are Moves, the others
\* are Eats.
LoopHeads ==
    <<Coords(1, 2), Coords(1, 1), Coords(2, 1), Coords(2, 0), Coords(1, 0),
      Coords(0, 0), Coords(0, 1), Coords(0, 2), Coords(0, 3), Coords(0, 4),
      Coords(1, 4), Coords(1, 3), Coords(2, 3), Coords(2, 4), Coords(3, 4),
      Coords(4, 4), Coords(4, 3), Coords(3, 3), Coords(3, 2), Coords(4, 2),
      Coords(4, 1), Coords(4, 0), Coords(3, 0), Coords(3, 1)>>

LoopMoves == {3, 4}

\* The food after step call i of that play: every draw lands on the cell of
\* the next Eat, and the draw of the last Eat on (2,1).
LoopFood(i) ==
    LET eats == {j \in (i + 1)..Len(LoopHeads) : j \notin LoopMoves}
    IN  IF eats = {} THEN Coords(2, 1)
        ELSE LoopHeads[CHOOSE j \in eats : \A k \in eats : j <= k]

\* The game after step calls i..n of that play are made on g, each by step.
RECURSIVE LoopPlayed(_, _, _)
LoopPlayed(g, i, n) ==
    LET x == CHOOSE y \in UNION {step(g, t) : t \in Turn} :
                y.snake.head = LoopHeads[i] /\ y.food_coords = LoopFood(i)
    IN  IF i > n THEN g
        ELSE IF x.status = "Ongoing" THEN LoopPlayed(x, i + 1, n)
        ELSE x

LoopOpened ==
    LoopPlayed(CHOOSE g \in Game_new : g.food_coords = LoopFood(0), 1, LoopOpeningLen)

LoopInit ==
    /\ game = LoopOpened
    /\ fault = "none"
    /\ steps = 0
    /\ ret = NoCall
    /\ LatchInit
    /\ pc = "game"

LoopSpec == LoopInit /\ [][Next]_vars

\* Games at every stage of that play: the game after its first n step calls,
\* for every n, played on by step and reset calls.
CareerInit ==
    /\ game \in {LoopPlayed(CHOOSE g \in Game_new : g.food_coords = LoopFood(0), 1, n) :
                    n \in 0..Len(LoopHeads)}
    /\ fault = "none"
    /\ steps = 0
    /\ ret = NoCall
    /\ LatchInit
    /\ pc = "game"

CareerStepCall(t) ==
    /\ game.status = "Ongoing"
    /\ StepWithin(t, MaxCareerSteps)
    /\ UNCHANGED <<latchVars, histVars, pc>>

CareerNext == (\E t \in Turn : CareerStepCall(t)) \/ ResetCall

CareerSpec == CareerInit /\ [][CareerNext]_vars

\* The same games played on by step calls, with the score shown at any time.
Brightness == {1, 255}

ShowStepCall(t) ==
    /\ game.status = "Ongoing"
    /\ StepWithin(t, MaxShowSteps)
    /\ UNCHANGED <<latchVars, histVars, pc>>

ShowNext ==
    \/ \E t \in Turn : ShowStepCall(t)
    \/ \E b \in Brightness : ScoreMatrixCall(b) /\ UNCHANGED <<latchVars, histVars, pc>>

ShowSpec == CareerInit /\ [][ShowNext]_vars

\* step_len_ms called on a Game of any speed a u8 can hold.
U8Max == 255

SpeedInit ==
    /\ game \in {[g EXCEPT !.speed = s] : g \in Game_new, s \in 1..U8Max}
    /\ fault = "none"
    /\ steps = 0
    /\ ret = NoCall
    /\ LatchInit
    /\ pc = "game"

SpeedNext == StepLenMsCall /\ UNCHANGED <<latchVars, histVars, pc>>

SpeedSpec == SpeedInit /\ [][SpeedNext]_vars

\* The latch driven through its interface: after init_buttons, get_turn is
\* called with either argument, and buttons are pressed at any time.
LatchSpecInit ==
    /\ game = CHOOSE g \in Game_new : TRUE
    /\ fault = "none"
    /\ steps = 0
    /\ ret = NoCall
    /\ LatchInit
    /\ pc = "init_buttons"

LatchNext ==
    \/ init_buttons("idle") /\ UNCHANGED callHist
    \/ (\E r \in BOOLEAN : get_turn_call(r, "idle"))
        /\ h_entry' = TURN
        /\ h_wasquiet' = h_quiet
        /\ UNCHANGED <<h_count, h_quiet>>
    \/ get_turn_read /\ UNCHANGED callHist
    \/ get_turn_reset
        /\ h_count' = (IF gt_reset THEN 0 ELSE h_count)
        /\ UNCHANGED <<h_entry, h_quiet, h_wasquiet>>
    \/ get_turn_return("idle")
        /\ h_quiet' = (IF gt_reset THEN gt_turn ELSE "no")
        /\ UNCHANGED <<h_count, h_entry, h_wasquiet>>
    \/ (\E ch \in {0, 1} : ButtonEdge(ch)) /\ UNCHANGED callHist
    \/ GPIOTE_Enter /\ UNCHANGED callHist
    \/ GPIOTE
        /\ h_count' = (IF h_count < 2 THEN h_count + 1 ELSE 2)
        /\ h_quiet' = "no"
        /\ UNCHANGED <<h_entry, h_wasquiet>>

LatchSpec == LatchSpecInit /\ [][LatchNext]_vars

\* The program: main (main.rs:22-54) and the interrupt.
MainInit == GameInit /\ LatchInit /\ pc = "init_buttons"

\* A match that takes the Ongoing arm whatever the status is.
main_steps_always == TRUE

\* match game.status: Ongoing => step(get_turn(true)), _ => flash and break.
main_steps == game.status = "Ongoing"

MainMatch ==
    /\ pc = "loop"
    /\ ~in_handler
    /\ fault = "none"
    /\ pc' = IF main_steps THEN "get_turn" ELSE "reset"
    /\ UNCHANGED <<gameVars, latchVars, histVars>>

MainStep ==
    /\ pc = "step"
    /\ ~in_handler
    /\ StepWithin(gt_turn, MaxMainSteps)
    /\ pc' = "loop"
    /\ UNCHANGED <<latchVars, histVars>>

MainReset ==
    /\ pc = "reset"
    /\ ~in_handler
    /\ ResetGame
    /\ pc' = "loop"
    /\ UNCHANGED <<latchVars, histVars>>

MainNext ==
    /\ \/ init_buttons("loop")
       \/ MainMatch
       \/ get_turn_call(TRUE, "get_turn")
       \/ get_turn_read
       \/ get_turn_reset
       \/ get_turn_return("step")
       \/ MainStep
       \/ MainReset
       \/ Interrupts
    /\ UNCHANGED callHist

MainSpec == MainInit /\ [][MainNext]_vars

\* The program late in a game: the snake is one step from the end of the
\* scripted play that loops onto its own tail. The main context runs again
\* after every interrupt and the handler runs to its end: however often the
\* buttons are pressed, main's next instruction is executed.
LateMainInit ==
    /\ game = LoopPlayed(CHOOSE g \in Game_new : g.food_coords = LoopFood(0),
                         1, Len(LoopHeads))
    /\ fault = "none"
    /\ steps = 0
    /\ ret = NoCall
    /\ LatchInit
    /\ pc = "init_buttons"

LateMainStep ==
    /\ pc = "step"
    /\ ~in_handler
    /\ StepWithin(gt_turn, MaxLateSteps)
    /\ pc' = "loop"
    /\ UNCHANGED <<latchVars, histVars>>

MainProgram ==
    /\ \/ init_buttons("loop")
       \/ MainMatch
       \/ get_turn_call(TRUE, "get_turn")
       \/ get_turn_read
       \/ get_turn_reset
       \/ get_turn_return("step")
       \/ LateMainStep
       \/ MainReset
    /\ UNCHANGED callHist

Handler == GPIOTE /\ UNCHANGED callHist

LateMainNext == MainProgram \/ (Interrupts /\ UNCHANGED callHist)

LateMainSpec ==
    /\ LateMainInit
    /\ [][LateMainNext]_vars
    /\ SF_vars(MainProgram)
    /\ WF_vars(Handler)

\* ------------------------------------------------------------------ claims

Range(q) == {q[i] : i \in 1..Len(q)}

SnakeCells(g) == {g.snake.head} \cup Range(g.snake.tail)

\* A step call that returned, from `game` to game'.
IsStep == steps' = steps + 1 /\ fault' = "none"

\* The cell that step projected the head onto (the heading after a step is
\* the heading its turn gave, whatever the outcome).
Projected == next_move([game EXCEPT !.snake.direction = game'.snake.direction])

\* C1: in every Ongoing state the occupied set is {head} united with the tail
\* elements, and head and tail elements are pairwise distinct.
C1_OccupiedSet ==
    game.status = "Ongoing" =>
        /\ game.snake.coord_set = SnakeCells(game)
        /\ Cardinality(SnakeCells(game)) = Len(game.snake.tail) + 1

\* C2 as stated: in a Won or Lost state a step call with any turn changes
\* nothing.
C2_AnyStepIsNoOp ==
    game.status \in {"Won", "Lost"} =>
        \A t \in Turn : step_fault(game, t) = "none" /\ step(game, t) = {game}

\* C2 as amended: in a Won or Lost state a step call with Turn::None changes
\* nothing (the same projected cell is classified the same way again).
C2_StraightStepIsNoOp ==
    game.status \in {"Won", "Lost"} =>
        step_fault(game, "None") = "none" /\ step(game, "None") = {game}

\* A lost game in which a step call with a turn would move the snake and
\* set the status back to Ongoing.
C2_Witness ==
    /\ game.status = "Lost"
    /\ step(game, "None") = {game}
    /\ \E t \in Turn : \E g \in step(game, t) :
            g.status = "Ongoing" /\ g.snake.head # game.snake.head

\* C3: a step whose projected head is in bounds and on a tail element other
\* than the oldest one sets status Lost and leaves the snake where it is.
C3_SelfCollisionLoses ==
    [][(IsStep /\ game.status = "Ongoing"
        /\ ~is_out_of_bounds(Projected)
        /\ Projected \in Range(game.snake.tail)
        /\ Projected # Head(game.snake.tail))
       => (/\ game'.status = "Lost"
           /\ game'.snake.head = game.snake.head
           /\ game'.snake.tail = game.snake.tail)]_vars

\* C4: a step whose projected head is the oldest tail segment is a Move:
\* status stays Ongoing, the head moves there, the tail keeps its length and
\* score, speed and food are unchanged.
C4_VacatedCellIsMove ==
    [][(IsStep /\ game.status = "Ongoing"
        /\ Projected = Head(game.snake.tail))
       => (/\ game'.status = "Ongoing"
           /\ game'.snake.head = Projected
           /\ Len(game'.snake.tail) = Len(game.snake.tail)
           /\ game'.score = game.score
           /\ game'.speed = game.speed
           /\ game'.food_coords = game.food_coords)]_vars

FoodOffSnake(g) == g.food_coords \in Grid /\ g.food_coords \notin SnakeCells(g)

\* C5: whenever food is placed (Game::new, reset, an Eat step) the food cell
\* is in bounds and is neither the head nor a tail element at that moment.
C5_FoodPlacedOffSnake ==
    /\ [](steps = 0 => FoodOffSnake(game))
    /\ [][(IsStep /\ Len(game'.snake.tail) = Len(game.snake.tail) + 1)
          => FoodOffSnake(game')]_vars

\* C10: place_food never runs with the whole grid excluded: no call spins
\* in Coords::random, every step that would eat leaves a free cell for the
\* food, and with a tail of 23 a step onto the food is Full, not Eat.
C10_FoodHasFreeCell ==
    /\ fault # "spin"
    /\ \A t \in Turn :
        LET g == turned(game, t)
            o == get_step_outcome(g)
        IN  /\ o.kind = "Eat" =>
                random(move_snake(g.snake, o.coords, TRUE).coord_set) # {}
            /\ (Len(g.snake.tail) = 23 /\ next_move(g) = g.food_coords
                    /\ next_move(g) \notin g.snake.coord_set)
                => step(game, t) = {[g EXCEPT !.status = "Won"]}

\* The game is won: the food was last placed on the one free cell, and the
\* step onto it was classified Full.
C10_Witness ==
    /\ game.status = "Won"
    /\ Len(game.snake.tail) = 23
    /\ random(game.snake.coord_set) = {game.food_coords}

\* C6: get_turn's read and clear are atomic with respect to the handler: the
\* value get_turn clears is the value it returns, and a value it returns is
\* None or the value a completed handler stored.
C6_AtomicReadAndClear ==
    /\ pc = "gt_reset" => gt_turn = TURN
    /\ (pc \in {"gt_reset", "gt_exit"} /\ gt_turn # "None")
        => (h_seen # NoInt /\ h_seen.turn = gt_turn)

\* get_turn(true) is about to return a stored turn while a button edge that
\* came during its critical section waits as a pending interrupt.
C6_Witness ==
    /\ pc = "gt_exit"
    /\ gt_reset
    /\ gt_turn # "None"
    /\ irq_pending
    /\ TURN = "None"

\* C7: once buttons are initialised, get_turn(true) returns the turn of the
\* latest interrupt since the previous get_turn(true), None if there was none.
C7_LastWriteWins ==
    (GPIO /\ gt_reset /\ pc \in {"gt_reset", "gt_exit"})
        => gt_turn = (IF h_seen = NoInt THEN "None" ELSE h_seen.turn)

\* Two or more interrupts ran since the previous poll, and get_turn(true)
\* returns what the last one stored.
C7_Witness ==
    /\ pc = "gt_reset"
    /\ gt_reset
    /\ h_count = 2
    /\ h_seen.turn = "Right"
    /\ gt_turn = "Right"

\* C8: get_turn returns the latched value v; get_turn(true) right after a
\* get_turn(true), with no interrupt between them, returns None; and
\* get_turn(false) leaves the latched value equal to v.
C8_TwiceThenNone ==
    pc = "gt_exit" =>
        /\ gt_turn = h_entry
        /\ (gt_reset /\ h_wasquiet # "no") => gt_turn = "None"
        /\ ~gt_reset => TURN = h_entry

\* The second of two successive get_turn(true) calls returns None after the
\* first returned Left.
C8_Witness ==
    /\ pc = "gt_exit"
    /\ gt_reset
    /\ h_wasquiet = "Left"
    /\ gt_turn = "None"

\* C9: the handler stores None for flags (false,false) and (true,true), Left
\* for (true,false), Right for (false,true), and clears both flags; and the
\* step that consumes the poll of a both-flags interrupt gets Turn::None and
\* keeps the heading.
C9_BothButtonsKeepHeading ==
    /\ [][(in_handler /\ ~in_handler' /\ GPIO)
          => (/\ TURN' = (CASE event0 /\ ~event1 -> "Left"
                            [] ~event0 /\ event1 -> "Right"
                            [] OTHER -> "None")
              /\ ~event0'
              /\ ~event1')]_vars
    /\ [][(pc = "step" /\ pc' = "loop" /\ h_seen.a /\ h_seen.b)
          => (/\ gt_turn = "None"
              /\ game'.snake.direction = game.snake.direction)]_vars

\* A step has just consumed the poll of an interrupt that saw both flags.
C9_Witness ==
    /\ pc = "loop"
    /\ steps > 0
    /\ h_seen.a
    /\ h_seen.b
    /\ game.status = "Ongoing"

\* C11: status becomes Won only by a step whose projected head is the food
\* cell while the tail length is 23, and in a Won state the head, the 23 tail
\* segments and the food cell are 25 pairwise distinct cells: the whole grid.
C11_WonMeansGridFull ==
    /\ [][(game'.status = "Won" /\ game.status # "Won")
          => (/\ IsStep
              /\ Projected = game.food_coords
              /\ Len(game.snake.tail) = 23)]_vars
    /\ [](game.status = "Won"
          => (/\ Len(game.snake.tail) = 23
              /\ game.food_coords \notin SnakeCells(game)
              /\ Cardinality(SnakeCells(game)) = 24
              /\ SnakeCells(game) \cup {game.food_coords} = Grid))

\* C12: step_len_ms is max(200, 1000 - 200*(speed-1)) for every speed in
\* 1..255: 1000 at speed 1, never below 200, not above its value at any lower
\* speed, and the intermediate stays between -49800 and 1000, far inside i32.
C12_StepLenClamped ==
    ret.fn = "step_len_ms" =>
        /\ ret.val = (IF 1000 - 200 * (game.speed - 1) >= 200
                      THEN 1000 - 200 * (game.speed - 1) ELSE 200)
        /\ (game.speed = 1 => ret.val = 1000)
        /\ ret.val >= 200
        /\ \A s \in 1..game.speed : step_len_ms([game EXCEPT !.speed = s]) >= ret.val
        /\ step_len_result(game) \in (0 - 49800)..1000

\* step_len_ms returned 200 for the highest speed, where the intermediate is
\* the most negative.
C12_Witness ==
    /\ ret.fn = "step_len_ms"
    /\ game.speed = 255
    /\ step_len_result(game) = 0 - 49800
    /\ ret.val = 200

\* The unit vector of a heading, as (row, col).
Unit(d) ==
    CASE d = "Up" -> Coords(0 - 1, 0)
      [] d = "Down" -> Coords(1, 0)
      [] d = "Left" -> Coords(0, 0 - 1)
      [] d = "Right" -> Coords(0, 1)

InGrid(c) == c.row \in 0..4 /\ c.col \in 0..4

\* C13: an Eat step (projected head in bounds, not in the occupied set, on the
\* food cell, tail shorter than 23) moves the head onto the food cell, appends
\* the old head to the tail and removes nothing, places new food, adds 1 to
\* score, adds 1 to speed iff the new score is a multiple of 5, and keeps
\* status Ongoing; from score 4 and speed 1 it gives score 5, speed 2 and
\* step_len_ms 800 after 1000.
C13_EatGrowsAndScores ==
    [][(IsStep /\ game.status = "Ongoing"
        /\ InGrid(Projected)
        /\ Projected \notin game.snake.coord_set
        /\ Projected = game.food_coords
        /\ Len(game.snake.tail) < 23)
       => (/\ game'.snake.head = game.food_coords
           /\ game'.snake.tail = Append(game.snake.tail, game.snake.head)
           /\ game'.snake.coord_set = game.snake.coord_set \cup {game.food_coords}
           /\ game'.food_coords \in Grid \ game'.snake.coord_set
           /\ game'.food_coords # game.food_coords
           /\ game'.score = game.score + 1
           /\ game'.speed = (IF (game.score + 1) % 5 = 0
                             THEN game.speed + 1 ELSE game.speed)
           /\ game'.status = "Ongoing"
           /\ (game.score = 4 /\ game.speed = 1)
                => (/\ game'.score = 5
                    /\ game'.speed = 2
                    /\ step_len_ms(game) = 1000
                    /\ step_len_ms(game') = 800))]_vars

\* The fifth Eat of a game has raised the speed to 2.
C13_Witness ==
    /\ game.status = "Ongoing"
    /\ game.score = 5
    /\ game.speed = 2
    /\ Len(game.snake.tail) = 6
    /\ game.snake.head \in game.snake.coord_set
    /\ step_len_ms(game) = 800

\* C14: in an Ongoing state, a step whose projected head (after the turn) has
\* its row or column outside 0..4 sets status Lost, whatever the occupied set
\* and the food are, and leaves head, tail, occupied set, food, score and
\* speed as they were.
C14_OutOfBoundsLoses ==
    [][(IsStep /\ game.status = "Ongoing" /\ ~InGrid(Projected))
       => (/\ game'.status = "Lost"
           /\ game'.snake.head = game.snake.head
           /\ game'.snake.tail = game.snake.tail
           /\ game'.snake.coord_set = game.snake.coord_set
           /\ game'.food_coords = game.food_coords
           /\ game'.score = game.score
           /\ game'.speed = game.speed)]_vars

\* The game is lost with the head in row 0 heading Up, and with the head in
\* the grid: the step projected it to row -1 and left it in place.
C14_Witness ==
    /\ game.status = "Lost"
    /\ game.snake.head.row = 0
    /\ game.snake.direction = "Up"
    /\ next_move(game).row = 0 - 1
    /\ game.snake.head \in Grid

\* C15: a Move step with Turn::None (projected head in bounds, on no tail
\* segment but possibly the oldest, not on the food) sets the head to the old
\* head plus the unit vector of the unchanged heading, appends the old head to
\* the tail and drops the oldest segment, and leaves food, score, speed and
\* status Ongoing; from head (2,2), tail [(2,1)], heading Right it gives head
\* (2,3), tail [(2,2)], occupied set {(2,2),(2,3)}.
C15_MoveShiftsSnake ==
    [][(IsStep /\ game.status = "Ongoing"
        /\ game'.snake.direction = game.snake.direction
        /\ InGrid(Projected)
        /\ Projected \notin Range(Tail(game.snake.tail))
        /\ Projected # game.food_coords)
       => (/\ game'.snake.head =
                Coords(game.snake.head.row + Unit(game.snake.direction).row,
                       game.snake.head.col + Unit(game.snake.direction).col)
           /\ game'.snake.tail = Tail(Append(game.snake.tail, game.snake.head))
           /\ game'.food_coords = game.food_coords
           /\ game'.score = game.score
           /\ game'.speed = game.speed
           /\ game'.status = "Ongoing"
           /\ (game.snake = Snake_new)
                => game'.snake = [head |-> Coords(2, 3),
                                  tail |-> <<Coords(2, 2)>>,
                                  coord_set |-> {Coords(2, 2), Coords(2, 3)},
                                  direction |-> "Right"])]_vars

\* The first step of a game was a Move with Turn::None.
C15_Witness ==
    /\ steps = 1
    /\ game.status = "Ongoing"
    /\ game.score = 0
    /\ game.snake = [head |-> Coords(2, 3),
                     tail |-> <<Coords(2, 2)>>,
                     coord_set |-> {Coords(2, 2), Coords(2, 3)},
                     direction |-> "Right"]

\* C16: from any state, Ongoing, Won or Lost, reset gives head (2,2), tail
\* [(2,1)], occupied set {(2,2),(2,1)}, heading Right, speed 1, score 0, status
\* Ongoing and food placed off the snake, and keeps the random source.
C16_ResetStartsOver ==
    [][(steps' = 0 /\ fault' = "none")
       => (/\ game'.snake = [head |-> Coords(2, 2),
                             tail |-> <<Coords(2, 1)>>,
                             coord_set |-> {Coords(2, 2), Coords(2, 1)},
                             direction |-> "Right"]
           /\ game'.speed = 1
           /\ game'.score = 0
           /\ game'.status = "Ongoing"
           /\ FoodOffSnake(game')
           /\ game'.rng = game.rng)]_vars

\* A game that was reset: in the specification that starts late in a game,
\* a fresh snake exists only after a reset.
C16_Witness ==
    /\ steps = 0
    /\ game.snake = Snake_new
    /\ game.score = 0
    /\ game.speed = 1
    /\ game.status = "Ongoing"
    /\ game.food_coords = Coords(4, 4)

\* C17: score_matrix(level) sets the first floor(score/5) rows and the first
\* (score mod 5) cells of the next row to the level and every other cell to
\* zero, so exactly `score` cells are lit (score 7: row 0 and two cells of
\* row 1); and in no reachable state does the call index outside the grid.
C17_ScoreMatrixShape ==
    /\ fault # "panic"
    /\ ~score_matrix_panics(game)
    /\ game.score \div 5 < 5
    /\ ret.fn = "score_matrix" =>
        /\ \A r \in 0..4 : \A c \in 0..4 :
              ret.val[r][c] = (IF 5 * r + c < game.score THEN ret.brightness ELSE 0)
        /\ Cardinality({rc \in (0..4) \X (0..4) :
                            ret.val[rc[1]][rc[2]] = ret.brightness}) = game.score
        /\ game.score = 7 =>
              /\ \A c \in 0..4 : ret.val[0][c] = ret.brightness
              /\ ret.val[1] = [c \in 0..4 |-> IF c < 2 THEN ret.brightness ELSE 0]
              /\ \A r \in 2..4 : \A c \in 0..4 : ret.val[r][c] = 0

\* score_matrix has shown a score of 7.
C17_Witness ==
    /\ ret.fn = "score_matrix"
    /\ game.score = 7
    /\ ret.val[1][1] = ret.brightness
    /\ ret.val[1][2] = 0

\* C18: no unwrap panics and no container overflows: the tail is never empty
\* when get_step_outcome peeks it, its length is between 1 and 23 between
\* steps and at most 24 inside move_snake, below the queue's capacity; the
\* occupied set never exceeds its capacity of 32; and the projected head's row
\* and column stay in the i8 range.
C18_NoPanicNoOverflow ==
    /\ fault # "panic"
    /\ Len(game.snake.tail) \in 1..23
    /\ Len(game.snake.tail) + 1 <= 24
    /\ 24 <= TailQueueSize - 1
    /\ Cardinality(game.snake.coord_set) + 1 <= 32
    /\ CoordSetCapacity = 32
    /\ game.snake.head \in Grid
    /\ \A t \in Turn :
        LET g == turned(game, t)
        IN  /\ next_move(g).row \in (0 - 128)..127
            /\ next_move(g).col \in (0 - 128)..127
            /\ game.status = "Ongoing" =>
                  /\ get_step_outcome(g).kind # "Panic"
                  /\ ~move_snake_panics(g.snake, next_move(g))

\* A tail of 23 with a Move ahead: move_snake enqueues the head as the 24th
\* element before it dequeues the oldest one.
C18_Witness ==
    /\ game.status = "Ongoing"
    /\ fault = "none"
    /\ Len(game.snake.tail) = 23
    /\ \E t \in Turn : get_step_outcome(turned(game, t)).kind = "Move"

\* C20: in every state reached from Game::new by resets and by step calls
\* made while status is Ongoing, score is the tail length minus 1, speed is
\* 1 + floor(score/5), score is at most 22 and speed at most 5, so neither u8
\* overflows; and no step lowers the speed.
C20_ScoreSpeedTail ==
    /\ [](/\ game.score = Len(game.snake.tail) - 1
          /\ game.speed = 1 + (game.score \div 5)
          /\ game.score <= 22
          /\ game.speed <= 5
          /\ fault = "none"
          /\ \A t \in Turn :
                ~step_overflows(turned(game, t), get_step_outcome(turned(game, t))))
    /\ [][steps' = steps + 1 => game'.speed >= game.speed]_vars

\* The highest score and speed a game reaches.
C20_Witness ==
    /\ game.score = 22
    /\ game.speed = 5
    /\ Len(game.snake.tail) = 23
    /\ steps > 0

\* C19: under the main loop an iteration with status Ongoing makes one
\* get_turn(true) poll and then one step; step is never called while status is
\* Won or Lost; and every Won or Lost status is followed by reset, which
\* returns the game to Ongoing.
C19_MainLoop ==
    /\ [][(pc = "loop" /\ pc' # pc)
          => pc' = (IF game.status = "Ongoing" THEN "get_turn" ELSE "reset")]_vars
    /\ [][(pc = "get_turn" /\ pc' # pc) => (pc' = "gt_read" /\ gt_reset')]_vars
    /\ [][(pc = "gt_exit" /\ pc' # pc) => (pc' = "step" /\ gt_reset)]_vars
    /\ [][(pc = "step" /\ pc' # pc)
          => (pc' = "loop" /\ steps' = steps + 1 /\ game.status = "Ongoing")]_vars
    /\ [][steps' # steps
          => \/ (pc = "step" /\ steps' = steps + 1 /\ game.status = "Ongoing")
             \/ (pc = "reset" /\ steps' = 0 /\ game.status \in {"Won", "Lost"}
                    /\ game'.status = "Ongoing")]_vars
    /\ [][game'.status # game.status
          => (pc = "step" \/ (pc = "reset" /\ game'.snake = Snake_new))]_vars
    /\ [](game.status \in {"Won", "Lost"} => pc \in {"loop", "reset"})
    /\ (game.status \in {"Won", "Lost"}) ~> (game.status = "Ongoing" /\ pc = "loop")

\* The game was won and main is about to reset it.
C19_Witness ==
    /\ pc = "reset"
    /\ game.status = "Won"
    /\ gt_turn = "Left"
    /\ steps = 1

====
